---- MODULE Spec2Model ----
(***************************************************************************)
(* Policy-gradient agents for 2048 (src/agents.py): Network, Policy,       *)
(* RandomPolicy, ReinforcePolicy, ActorCriticPolicy and                    *)
(* ReinforceBaselinePolicy.                                                *)
(*                                                                         *)
(* Numbers.  Array entries are exact rationals <<n, d>> (d > 0, lowest     *)
(* terms); the float values the code can also produce, NaN (0/0) and Inf   *)
(* (x/0), are <<0, 0>> and <<1, 0>>.  Batches are sequences, so index i of *)
(* the code is index i + 1 here; actions keep the code's numbering 0..3.   *)
(*                                                                         *)
(* Arrays whose rank the code inspects or broadcasts over carry it:        *)
(* [ndim |-> k, data |-> ...].  An observation is an opaque board id       *)
(* (ndim 3), a batch of observations a sequence of board ids (ndim 4).     *)
(*                                                                         *)
(* Networks.  Where a numeric function is evaluated, the parameters of a    *)
(* network are recorded by the function the network computes with them on  *)
(* the observations it is applied to.                                      *)
(* A logit is recorded by its exponential, a positive integer w (the       *)
(* logit is ln w), so that softmax is exact; the logit -inf is recorded    *)
(* as 0.                                                                   *)
(***************************************************************************)
EXTENDS Integers, Sequences, FiniteSets, TLC

VARIABLES
    call,            \* the numeric function being evaluated and its arguments
    result,          \* <<"pending">>, then <<"returned", value>>
    network_states,  \* the NetworkState objects, in order of construction
    policy_states,   \* the PolicyState objects, in order of construction
    self_logger,     \* the logger of the policy: <<>> until set_logger is
                     \* called, then <<the logger last set>>
    logger,          \* the mappings handed to logger.record, each with the
                     \* logger that received it and the policy that handed it
    update_calls,    \* per policy, the number of update calls made
    last_update      \* the last update call: its arguments, the Network.update
                     \* calls it made and what it returned

training == <<network_states, policy_states, self_logger, logger, update_calls,
              last_update>>
vars == <<call, result, training>>

-----------------------------------------------------------------------------
(* Bounds of the model *)

MaxBatch == 4        \* longest batch handed to compute_discounted_returns
MaxReward == 2       \* rewards are drawn from 0..MaxReward
MaxWeight == 2       \* exponentials of the logits are drawn from 1..MaxWeight
KeyDen == 4          \* a random key yields a uniform draw k / KeyDen, k < KeyDen
MaxLossBatch == 2    \* longest batch handed to compute_loss
NumBoards == 2       \* distinct observations in a batch handed to compute_loss
MaxValue == 1        \* the critic's outputs are drawn from 0..MaxValue

-----------------------------------------------------------------------------
(* Program constants *)

NumActions == 4      \* action masks and actor outputs have shape [4]
Actions == 0..(NumActions - 1)

-----------------------------------------------------------------------------
(* Exact arithmetic *)

Abs(n) == IF n < 0 THEN -n ELSE n

RECURSIVE GCD(_, _)
GCD(a, b) == IF b = 0 THEN a ELSE GCD(b, a % b)

Rat(n, d) ==
    LET s == IF d < 0 THEN -1 ELSE 1
        g == GCD(Abs(n), Abs(d))
    IN  <<(s * n) \div g, (s * d) \div g>>

Zero == <<0, 1>>
One == <<1, 1>>
RAdd(x, y) == Rat(x[1] * y[2] + y[1] * x[2], x[2] * y[2])
RSub(x, y) == Rat(x[1] * y[2] - y[1] * x[2], x[2] * y[2])
RMul(x, y) == Rat(x[1] * y[1], x[2] * y[2])
RDiv(x, y) == Rat(x[1] * y[2], x[2] * y[1])

RLess(x, y) == x[1] * y[2] < y[1] * x[2]

NaN == <<0, 0>>
Inf == <<1, 0>>
IsNaN(x) == x = NaN
IsFinite(x) == x[2] # 0

\* Float multiplication, addition and division on rationals, NaN and Inf
\* (only non-negative operands occur where Inf can).
FMul(x, y) ==
    IF IsNaN(x) \/ IsNaN(y) THEN NaN
    ELSE IF IsFinite(x) /\ IsFinite(y) THEN RMul(x, y)
    ELSE IF x = Zero \/ y = Zero THEN NaN ELSE Inf

FAdd(x, y) ==
    IF IsNaN(x) \/ IsNaN(y) THEN NaN
    ELSE IF IsFinite(x) /\ IsFinite(y) THEN RAdd(x, y) ELSE Inf

FDiv(x, y) ==
    IF IsNaN(x) \/ IsNaN(y) THEN NaN
    ELSE IF ~IsFinite(y) THEN (IF IsFinite(x) THEN Zero ELSE NaN)
    ELSE IF ~IsFinite(x) THEN Inf
    ELSE IF y = Zero THEN (IF x = Zero THEN NaN ELSE Inf)
    ELSE RDiv(x, y)

\* The running sums x[0], x[0] + x[1], ... of an array over the actions
\* (jnp.cumsum); its last entry is x.sum().
RECURSIVE cumsum(_, _)
cumsum(x, a) == IF a = 0 THEN x[0] ELSE FAdd(cumsum(x, a - 1), x[a])

sum(x) == cumsum(x, NumActions - 1)

-----------------------------------------------------------------------------
(* Logarithms.  A loss is a rational combination of 1 and of the logarithms *)
(* of primes, c + sum over primes p of c_p * ln p, recorded as the function *)
(* [1 |-> c, p |-> c_p].  The numbers 1, ln 2, ln 3, ln 5, ... are linearly *)
(* independent over the rationals, so two losses are equal exactly when the *)
(* two functions are.                                                       *)

Primes == {n \in 2..(NumActions * MaxWeight) : \A k \in 2..(n - 1) : n % k # 0}
Basis == {1} \cup Primes

RECURSIVE Exponent(_, _)
Exponent(prime, n) ==
    IF n % prime = 0 THEN 1 + Exponent(prime, n \div prime) ELSE 0

Const(x) == [b \in Basis |-> IF b = 1 THEN x ELSE Zero]

\* jnp.log of a probability n / d; log(0) is -inf.
log(x) ==
    IF x = Zero
    THEN [b \in Basis |-> <<-1, 0>>]
    ELSE [b \in Basis |->
            IF b = 1 THEN Zero ELSE Rat(Exponent(b, x[1]) - Exponent(b, x[2]), 1)]

LAdd(x, y) == [b \in Basis |-> RAdd(x[b], y[b])]
LScale(c, x) == [b \in Basis |-> RMul(c, x[b])]
LNeg(x) == LScale(Rat(-1, 1), x)

-----------------------------------------------------------------------------
(* Arrays of rank 1 and 2 and their broadcasting *)

\* The sequence <<F(1), ..., F(n)>>
RECURSIVE Tabulate(_, _)
Tabulate(F(_), n) == IF n = 0 THEN <<>> ELSE Append(Tabulate(F, n - 1), F(n))

Vec(entries) == [ndim |-> 1, data |-> entries]
Mat(rows) == [ndim |-> 2, data |-> rows]

Max(a, b) == IF a > b THEN a ELSE b

\* The rows of an array, a rank-1 array of shape [m] standing as [1, m]
Rows(x) == IF x.ndim = 1 THEN <<x.data>> ELSE x.data

\* An elementwise binary operation with NumPy broadcasting: shapes are
\* aligned from the last axis and an axis of length 1 is repeated, so
\* [B, 1] with [B] gives [B, B].
Broadcast(Op(_, _), x, y) ==
    LET X == Rows(x)
        Y == Rows(y)
        n == Max(Len(X), Len(Y))
        m == Max(Len(X[1]), Len(Y[1]))
        At(A, i, j) == A[IF Len(A) = 1 THEN 1 ELSE i][IF Len(A[1]) = 1 THEN 1 ELSE j]
        Row(i) == LET Entry(j) == Op(At(X, i, j), At(Y, i, j)) IN Tabulate(Entry, m)
        rows == Tabulate(Row, n)
    IN  IF x.ndim = 1 /\ y.ndim = 1 THEN Vec(rows[1]) ELSE Mat(rows)

\* An elementwise operation on one array
Map(Op(_), x) ==
    LET OnRow(row) == LET Entry(j) == Op(row[j]) IN Tabulate(Entry, Len(row))
        Row(i) == OnRow(x.data[i])
    IN  IF x.ndim = 1 THEN Vec(OnRow(x.data)) ELSE Mat(Tabulate(Row, Len(x.data)))

RECURSIVE SeqSum(_, _, _)
SeqSum(Plus(_, _), zero, s) ==
    IF Len(s) = 0 THEN zero ELSE Plus(s[1], SeqSum(Plus, zero, Tail(s)))

\* The entries of an array, row after row
RECURSIVE Flatten(_)
Flatten(rows) == IF Len(rows) = 0 THEN <<>> ELSE rows[1] \o Flatten(Tail(rows))

Entries(x) == Flatten(Rows(x))

\* jnp.mean over every entry, of rationals and of losses
mean(x) == RDiv(SeqSum(RAdd, Zero, Entries(x)), Rat(Len(Entries(x)), 1))
Lmean(x) == LScale(Rat(1, Len(Entries(x))), SeqSum(LAdd, Const(Zero), Entries(x)))

-----------------------------------------------------------------------------
(* ReinforcePolicy.compute_discounted_returns *)

\* Faulty variants of the loop body (used to show the properties below depend
\* on the gating by dones[i]): gating by the following step's flag, and no
\* gating at all.
RECURSIVE running_return_next_done(_, _, _, _)
running_return_next_done(rewards, dones, discount_factor, i) ==
    IF i > Len(rewards)
    THEN Zero
    ELSE RAdd(rewards[i],
              RMul(RMul(discount_factor,
                        running_return_next_done(rewards, dones, discount_factor, i + 1)),
                   RSub(One, IF i < Len(rewards) THEN dones[i + 1] ELSE Zero)))

RECURSIVE running_return_ungated(_, _, _, _)
running_return_ungated(rewards, dones, discount_factor, i) ==
    IF i > Len(rewards)
    THEN Zero
    ELSE RAdd(rewards[i],
              RMul(discount_factor,
                   running_return_ungated(rewards, dones, discount_factor, i + 1)))

\* The value of running_return once the reverse loop has handled index i
\* (running_return starts at 0.0 beyond the end of the batch).
RECURSIVE running_return(_, _, _, _)
running_return(rewards, dones, discount_factor, i) ==
    IF i > Len(rewards)
    THEN Zero
    ELSE RAdd(rewards[i],
              RMul(RMul(discount_factor,
                        running_return(rewards, dones, discount_factor, i + 1)),
                   RSub(One, dones[i])))

compute_discounted_returns(transitions, discount_factor) ==
    LET Return(i) ==
            running_return(transitions.reward, transitions.done, discount_factor, i)
    IN  Tabulate(Return, Len(transitions.reward))

-----------------------------------------------------------------------------
(* Network: forward passes *)

NetworkState(model_parameters, optimizer_state) ==
    [model_parameters |-> model_parameters, optimizer_state |-> optimizer_state]

\* Network.get_logits: the model recombined with model_parameters, applied to
\* one unbatched input.
get_logits(model_parameters, model_input) == model_parameters[model_input]

\* Network.get_batch_logits: get_logits mapped over the batch dimension.
get_batch_logits(model_parameters, model_inputs) ==
    LET Logits(i) == get_logits(model_parameters, model_inputs.data[i])
    IN  Tabulate(Logits, Len(model_inputs.data))

-----------------------------------------------------------------------------
(* Policies: action probabilities *)

Policies == {"RandomPolicy", "ReinforcePolicy", "ActorCriticPolicy",
             "ReinforceBaselinePolicy"}

NegInfLogit == 0

\* jnp.where(action_mask, logits, -jnp.inf) on one row of the mask
where_mask(mask_row, x, otherwise) ==
    [a \in Actions |-> IF mask_row[a] = 1 THEN x[a] ELSE otherwise]

\* jax.nn.softmax over the last axis: exp(logit) / sum of exp(logit); with
\* every logit at -inf it is NaN everywhere.
softmax(logits) ==
    LET e == [a \in Actions |-> Rat(logits[a], 1)]
        total == sum(e)
    IN  [a \in Actions |-> FDiv(e[a], total)]

\* Faulty variant: the softmax is taken over all logits and the forbidden
\* entries are zeroed afterwards.
masked_probabilities_unmasked_softmax(mask_row, logits) ==
    where_mask(mask_row, softmax(logits), Zero)

\* Masked softmax of one row: forbidden logits at -inf, softmax, forbidden
\* entries set to 0.
masked_probabilities(mask_row, logits) ==
    LET masked_logits == where_mask(mask_row, logits, NegInfLogit)
        action_probabilities == softmax(masked_logits)
    IN  where_mask(mask_row, action_probabilities, Zero)

\* An operation on rows of a mask broadcasts over the batch dimension of the
\* mask when it has one.
OverRows(action_mask, F(_)) ==
    LET Row(i) == F(action_mask.data[i])
    IN  IF action_mask.ndim = 2
        THEN Tabulate(Row, Len(action_mask.data))
        ELSE F(action_mask.data)

Random_get_action_probabilities(model_parameters, observation, action_mask) ==
    LET m == [a \in Actions |-> Rat(action_mask.data[a], 1)]
        total == sum(m)
    IN  [a \in Actions |-> FDiv(m[a], total)]

Reinforce_get_action_probabilities(model_parameters, observation, action_mask) ==
    LET obs == IF observation.ndim = 4 THEN observation.data[1] ELSE observation.data
        logits == get_logits(model_parameters, obs)
        Row(mask_row) == masked_probabilities(mask_row, logits)
    IN  OverRows(action_mask, Row)

BaseActorCritic_get_action_probabilities(model_parameters, observation, action_mask) ==
    LET logits == get_logits(model_parameters, observation.data)
        Row(mask_row) == masked_probabilities(mask_row, logits)
    IN  OverRows(action_mask, Row)

\* Method resolution: ReinforceBaselinePolicy(ActorCriticPolicy, ReinforcePolicy)
\* finds BaseActorCriticPolicy's method before ReinforcePolicy's.
get_action_probabilities(self, model_parameters, observation, action_mask) ==
    CASE self = "RandomPolicy" ->
            Random_get_action_probabilities(model_parameters, observation, action_mask)
      [] self = "ReinforcePolicy" ->
            Reinforce_get_action_probabilities(model_parameters, observation, action_mask)
      [] self \in {"ActorCriticPolicy", "ReinforceBaselinePolicy"} ->
            BaseActorCritic_get_action_probabilities(model_parameters, observation,
                                                     action_mask)

-----------------------------------------------------------------------------
(* Policy.sample_action *)

\* jax.random.uniform(key): a draw from [0, 1).
uniform(key) == Rat(key, KeyDen)

\* jnp.searchsorted(p_cuml, r): the number of entries below r.
searchsorted(p_cuml, r) == Cardinality({a \in Actions : RLess(p_cuml[a], r)})

\* Faulty variant: the draw r = total * uniform(key) can be 0, which selects
\* the first action whatever its probability.
random_choice_from_zero(key, p) ==
    IF \E a \in Actions : ~IsFinite(p[a])
    THEN Actions
    ELSE LET p_cuml == [a \in Actions |-> cumsum(p, a)]
             r == RMul(p_cuml[NumActions - 1], uniform(key))
             ind == searchsorted(p_cuml, r)
         IN  {IF ind > NumActions - 1 THEN NumActions - 1 ELSE ind}

\* jax.random.choice(key, jnp.arange(n), p = p): the set of indices it can
\* return.  r = p_cuml[-1] * (1 - uniform(key)) lies in (0, total], and the
\* index is searchsorted(p_cuml, r), clamped to the array.  With NaN in p
\* every comparison of the search is on NaN and the index is unspecified.
random_choice(key, p) ==
    IF \E a \in Actions : ~IsFinite(p[a])
    THEN Actions
    ELSE LET p_cuml == [a \in Actions |-> cumsum(p, a)]
             r == RMul(p_cuml[NumActions - 1], RSub(One, uniform(key)))
             ind == searchsorted(p_cuml, r)
         IN  {IF ind > NumActions - 1 THEN NumActions - 1 ELSE ind}

\* The set of actions sample_action can return.
sample_action(self, key, policy_state, observation, action_mask) ==
    LET action_probs ==
            get_action_probabilities(self,
                policy_state.actor_network_state.model_parameters,
                observation, action_mask)
        masked_probs == [a \in Actions |->
                            FMul(action_probs[a], Rat(action_mask.data[a], 1))]
        total == sum(masked_probs)
        normalized == [a \in Actions |-> FDiv(masked_probs[a], total)]
    IN  random_choice(key, normalized)

-----------------------------------------------------------------------------
(* Policy.actions_to_probabilities and compute_loss *)

Unbatched(observation) == [ndim |-> 3, data |-> observation]
MaskRow(mask) == [ndim |-> 1, data |-> mask]

BatchSize(transitions) == Len(transitions.observation.data)

\* get_action_probabilities mapped over the rows of the batch (jax.vmap with
\* in_axes (None, 0, 0)), then the probability of each row's own action.
actions_to_probabilities(self, model_parameters, observations, actions, action_masks) ==
    LET Probabilities(i) ==
            get_action_probabilities(self, model_parameters,
                                     Unbatched(observations.data[i]),
                                     MaskRow(action_masks.data[i]))
        all_probabilities == Tabulate(Probabilities, Len(observations.data))
        Taken(i) == all_probabilities[i][actions[i]]
    IN  Tabulate(Taken, Len(observations.data))

\* x * l for a rational x and a loss term l, in either order of the operands
ScaledBy(l, x) == LScale(x, l)
Scaling(x, l) == LScale(x, l)
Square(x) == RMul(x, x)

Random_compute_loss(self, discount_factor, model_parameters, transitions) ==
    <<Const(Zero), [name \in {} |-> Const(Zero)]>>

\* ReinforcePolicy.compute_loss.  get_action_probabilities is handed the
\* whole batch of observations and the whole batch of masks.
Reinforce_compute_loss(self, discount_factor, model_parameters, transitions) ==
    LET discounted_returns == compute_discounted_returns(transitions, discount_factor)
        action_probs == get_action_probabilities(self, model_parameters,
                                                 transitions.observation,
                                                 transitions.action_mask)
        all_log_probs == [i \in DOMAIN action_probs |->
                             [a \in Actions |-> log(action_probs[i][a])]]
        Selected(i) == all_log_probs[i][transitions.action[i]]
        action_log_probs == Tabulate(Selected, Len(action_probs))
        loss == LNeg(Lmean(Broadcast(Scaling, Vec(discounted_returns),
                                     Vec(action_log_probs))))
    IN  <<loss, [name \in {"Actor loss"} |-> loss]>>

\* compute_log_prob under jax.lax.scan over jnp.arange(batch size)
scan_log_probabilities(self, actor_parameters, transitions) ==
    LET compute_log_prob(idx) ==
            LET action_probabilities ==
                    get_action_probabilities(self, actor_parameters,
                        Unbatched(transitions.observation.data[idx]),
                        MaskRow(transitions.action_mask.data[idx]))
            IN  log(action_probabilities[transitions.action[idx]])
    IN  Tabulate(compute_log_prob, BatchSize(transitions))

\* ActorCriticPolicy.compute_loss.  The critic's outputs have shape [B, 1],
\* rewards and dones shape [B].
ActorCritic_compute_loss(self, discount_factor, model_parameters, transitions) ==
    LET actor_parameters == model_parameters[1]
        critic_parameters == model_parameters[2]
        rewards == Vec(transitions.reward)
        dones == Vec(transitions.done)
        Discounted(x) == RMul(discount_factor, x)
        OneMinus(x) == RSub(One, x)
        predicted_values ==
            Mat(get_batch_logits(critic_parameters, transitions.observation))
        next_values ==
            Mat(get_batch_logits(critic_parameters, transitions.next_observation))
        actor_advantage ==
            Broadcast(RSub,
                Broadcast(RAdd, rewards,
                    Map(Discounted, Broadcast(RMul, next_values, Map(OneMinus, dones)))),
                predicted_values)
        critic_advantage ==
            Broadcast(RSub, predicted_values,
                Broadcast(RAdd, rewards,
                    Broadcast(RMul, Map(Discounted, next_values), Map(OneMinus, dones))))
        action_log_probabilities ==
            scan_log_probabilities(self, actor_parameters, transitions)
        actor_loss == LNeg(Lmean(Broadcast(ScaledBy, Vec(action_log_probabilities),
                                           actor_advantage)))
        critic_loss == Const(RMul(Rat(1, 2), mean(Map(Square, critic_advantage))))
        loss == LAdd(actor_loss, critic_loss)
    IN  <<loss, [name \in {"Actor loss", "Critic loss"} |->
                    IF name = "Actor loss" THEN actor_loss ELSE critic_loss]>>

\* ReinforceBaselinePolicy.compute_loss.  G has shape [B], the critic's
\* outputs shape [B, 1].
ReinforceBaseline_compute_loss(self, discount_factor, model_parameters, transitions) ==
    LET actor_parameters == model_parameters[1]
        critic_parameters == model_parameters[2]
        G == Vec(compute_discounted_returns(transitions, discount_factor))
        critic_logits ==
            Mat(get_batch_logits(critic_parameters, transitions.observation))
        advantage == Broadcast(RSub, G, critic_logits)
        action_log_probabilities ==
            scan_log_probabilities(self, actor_parameters, transitions)
        actor_loss == LNeg(Lmean(Broadcast(ScaledBy, Vec(action_log_probabilities),
                                           advantage)))
        critic_loss == Const(mean(Map(Square, advantage)))
        loss == LAdd(actor_loss, critic_loss)
    IN  <<loss, [name \in {"Actor loss", "Value network loss"} |->
                    IF name = "Actor loss" THEN actor_loss ELSE critic_loss]>>

compute_loss(self, discount_factor, model_parameters, transitions) ==
    CASE self = "RandomPolicy" ->
            Random_compute_loss(self, discount_factor, model_parameters, transitions)
      [] self = "ReinforcePolicy" ->
            Reinforce_compute_loss(self, discount_factor, model_parameters, transitions)
      [] self = "ActorCriticPolicy" ->
            ActorCritic_compute_loss(self, discount_factor, model_parameters, transitions)
      [] self = "ReinforceBaselinePolicy" ->
            ReinforceBaseline_compute_loss(self, discount_factor, model_parameters,
                                           transitions)

-----------------------------------------------------------------------------
(* Objects of a training run.  A run constructs one policy, of any of the    *)
(* classes, with its own networks.  A NetworkState or PolicyState object is      *)
(* known by its position in network_states or policy_states; both are        *)
(* frozen dataclasses, so a position is written once, when the object is     *)
(* constructed.  In a training run model_parameters are recorded as the      *)
(* network they initialise and the updates applied to them since, and the    *)
(* optimizer's moment estimates as the gradients they have accumulated.      *)

\* The networks of a policy, in order of construction
Networks(self) ==
    IF self = "RandomPolicy" THEN << <<self, "network">> >>
    ELSE IF self = "ReinforcePolicy" THEN << <<self, "actor">> >>
    ELSE << <<self, "actor">>, <<self, "critic">> >>

OwnedNetworks(self) == {Networks(self)[i] : i \in DOMAIN Networks(self)}

InitialOptimizerState == [count |-> 0, moments |-> <<>>]

\* Network.__init__: the NetworkState a network caches as self.init_state
Network_init(network) ==
    NetworkState([of |-> network, updates |-> <<>>], InitialOptimizerState)

\* Network.get_init_state: the cached object
Network_get_init_state(network) ==
    CHOOSE i \in DOMAIN Networks(network[1]) : Networks(network[1])[i] = network

logger_entries(self) ==
    IF self = "RandomPolicy" THEN {}
    ELSE IF self = "ReinforcePolicy" THEN {"Actor loss"}
    ELSE IF self = "ReinforceBaselinePolicy" THEN {"Actor loss", "Value network loss"}
    ELSE {"Actor loss", "Critic loss"}

\* A policy is constructed without a logger attribute
NoLogger == <<>>
Loggers == {"L1", "L2"}

NoUpdate ==
    [self |-> "", state |-> 0, network_updates |-> <<>>, returned |-> 0, raised |-> ""]

\* The numeric functions above are evaluated on their own: no policy object
\* is constructed.
NoTraining ==
    /\ network_states = <<>>
    /\ policy_states = <<>>
    /\ self_logger = NoLogger
    /\ logger = <<>>
    /\ update_calls = [self \in Policies |-> 0]
    /\ last_update = NoUpdate

-----------------------------------------------------------------------------
(* Inputs of the return computation *)

Pending == <<"pending">>
Returned(v) == <<"returned", v>>

Rewards == {Rat(r, 1) : r \in 0..MaxReward}
Dones == {Zero, One}
Discounts == {Zero, Rat(1, 2), One}

SeqsOf(S, n) == [1..n -> S]

\* Batches of n transitions, of which the return computation reads the
\* rewards and the done flags
ReturnBatches(n) == [reward : SeqsOf(Rewards, n), done : SeqsOf(Dones, n)]

ReturnCalls(n) ==
    [fn : {"compute_discounted_returns"},
     transitions : ReturnBatches(n),
     discount_factor : Discounts]

InitReturns ==
    /\ \E n \in 1..MaxBatch : call \in ReturnCalls(n)
    /\ result = Pending
    /\ NoTraining

CallDiscountedReturns ==
    /\ call.fn = "compute_discounted_returns"
    /\ result = Pending
    /\ result' = Returned(compute_discounted_returns(call.transitions,
                                                     call.discount_factor))
    /\ UNCHANGED <<call, training>>

SpecReturns == InitReturns /\ [][CallDiscountedReturns]_vars

-----------------------------------------------------------------------------
(* Inputs of get_action_probabilities and sample_action: one unbatched       *)
(* observation, any action mask (the all-zero mask included), any key.       *)

Masks == [Actions -> {0, 1}]
LogitVectors == [Actions -> 1..MaxWeight]
Keys == 0..(KeyDen - 1)

\* RandomPolicy's network is eqx.nn.Identity(): it has no parameters.
ActorParametersOn(self, observations) ==
    IF self = "RandomPolicy" THEN {<<>>} ELSE [observations -> LogitVectors]

ProbabilityCalls(self) ==
    [fn : {"get_action_probabilities"},
     self : {self},
     model_parameters : ActorParametersOn(self, {1}),
     observation : {Unbatched(1)},
     action_mask : {MaskRow(m) : m \in Masks}]

SampleCalls(self) ==
    [fn : {"sample_action"},
     self : {self},
     key : Keys,
     policy_state :
         {[actor_network_state |-> NetworkState(mp, InitialOptimizerState)] :
             mp \in ActorParametersOn(self, {1})},
     observation : {Unbatched(1)},
     action_mask : {MaskRow(m) : m \in Masks}]

InitProbs ==
    /\ \E self \in Policies : call \in ProbabilityCalls(self) \cup SampleCalls(self)
    /\ result = Pending
    /\ NoTraining

CallGetActionProbabilities ==
    /\ call.fn = "get_action_probabilities"
    /\ result = Pending
    /\ result' = Returned(get_action_probabilities(call.self, call.model_parameters,
                                                   call.observation, call.action_mask))
    /\ UNCHANGED <<call, training>>

CallSampleAction ==
    /\ call.fn = "sample_action"
    /\ result = Pending
    /\ \E sampled_action \in sample_action(call.self, call.key, call.policy_state,
                                           call.observation, call.action_mask) :
          result' = Returned(sampled_action)
    /\ UNCHANGED <<call, training>>

NextProbs == CallGetActionProbabilities \/ CallSampleAction

SpecProbs == InitProbs /\ [][NextProbs]_vars

-----------------------------------------------------------------------------
(* Inputs of compute_loss: batches of 1..MaxLossBatch transitions over       *)
(* NumBoards boards.  The action mask of a step is the mask of the board it  *)
(* observes (on board 1 every move is valid, on the others the last move is  *)
(* not), and every action taken is valid under it, as sample_action          *)
(* guarantees.  The actor prefers no action or one of the actions taken;     *)
(* the critic values every board 0..MaxValue.                                *)

Boards == 1..NumBoards

AllValid == [a \in Actions |-> 1]
ActionMaskOf(board) ==
    IF board = 1 THEN AllValid ELSE [AllValid EXCEPT ![NumActions - 1] = 0]
LossActions == {0, 1}
LossLogits == {[a \in Actions |-> 1]}
                 \cup {[a \in Actions |-> IF a = k THEN MaxWeight ELSE 1] : k \in LossActions}
LossRewards == {Zero, One}

ActorTables == [Boards -> LossLogits]
CriticTables == [Boards -> {<<Rat(v, 1)>> : v \in 0..MaxValue}]

\* Batches of n transitions; NextBoards are the boards next_observation is
\* drawn from.
TransitionBatches(n, NextBoards) ==
    {[observation |-> [ndim |-> 4, data |-> obs],
      action |-> act,
      action_mask |-> [ndim |-> 2, data |-> [i \in 1..n |-> ActionMaskOf(obs[i])]],
      reward |-> rew,
      done |-> don,
      next_observation |-> [ndim |-> 4, data |-> nxt]] :
        obs \in SeqsOf(Boards, n), act \in SeqsOf(LossActions, n),
        rew \in SeqsOf(LossRewards, n),
        don \in SeqsOf(Dones, n), nxt \in SeqsOf(NextBoards, n)}

\* ReinforcePolicy and ReinforceBaselinePolicy do not read next_observation:
\* it is held at board 1 for them.
LossCalls(n) ==
        [fn : {"compute_loss"}, self : {"ReinforcePolicy"},
         discount_factor : {Rat(1, 2)},
         model_parameters : ActorTables,
         transitions : TransitionBatches(n, {1})]
        \cup
        [fn : {"compute_loss"}, self : {"ReinforceBaselinePolicy"},
         discount_factor : {Rat(1, 2)},
         model_parameters : ActorTables \X CriticTables,
         transitions : TransitionBatches(n, {1})]
        \cup
        [fn : {"compute_loss"}, self : {"ActorCriticPolicy"},
         discount_factor : {Rat(1, 2)},
         model_parameters : ActorTables \X CriticTables,
         transitions : TransitionBatches(n, Boards)]

InitLoss ==
    /\ \E n \in 1..MaxLossBatch : call \in LossCalls(n)
    /\ result = Pending
    /\ NoTraining

CallComputeLoss ==
    /\ call.fn = "compute_loss"
    /\ result = Pending
    /\ result' = Returned(compute_loss(call.self, call.discount_factor,
                                       call.model_parameters, call.transitions))
    /\ UNCHANGED <<call, training>>

SpecLoss == InitLoss /\ [][CallComputeLoss]_vars

-----------------------------------------------------------------------------
(* A training run: the trainer asks a policy for its initial state and then  *)
(* calls update on states the policy has given it.  The batch, the function  *)
(* each network computes with the parameters differentiated and the          *)
(* gradients that differentiation returns are inputs of an update call.      *)

MaxUpdates == 2
MaxInitStates == 2

TrainingDiscount == Rat(1, 2)

\* One transition on board 1, ending an episode or not
TrainingBatches ==
    {b \in TransitionBatches(1, {1}) :
        b.observation.data = <<1>> /\ b.action = <<0>> /\ b.reward = <<One>>}

TrainingActor == [board \in Boards |-> [a \in Actions |-> 1]]
TrainingCritic == [board \in Boards |-> <<Zero>>]

\* The function(s) compute_loss evaluates for the parameters it is given
Forward(self) ==
    IF self = "RandomPolicy" THEN <<>>
    ELSE IF self = "ReinforcePolicy" THEN TrainingActor
    ELSE <<TrainingActor, TrainingCritic>>

\* Gradients have the structure of the parameters differentiated: a gradient
\* is recorded with the network whose parameters it is taken with respect to.
GradientValues == {1}
GradientsOf(network) == [wrt : {network}, value : GradientValues]

\* What an operation works on: the objects, the logger of the policy and
\* what loggers have received, with the Network.update calls made so far in
\* the current update call and the exception it has raised, if any.
Memory ==
    [network_states |-> network_states,
     network_updates |-> <<>>,
     policy_states |-> policy_states,
     self_logger |-> self_logger,
     logger |-> logger,
     raised |-> ""]

\* optax: optimizer.update(gradients, optimizer_state)
optimizer_update(gradients, optimizer_state) ==
    LET moments == Append(optimizer_state.moments, gradients)
    IN  <<[step |-> optimizer_state.count, moments |-> moments],
          [count |-> optimizer_state.count + 1, moments |-> moments]>>

\* eqx.apply_updates(model_parameters, updates)
apply_updates(model_parameters, updates) ==
    [model_parameters EXCEPT !.updates = Append(@, updates)]

\* A Network.update that writes the updated fields into the object passed in
Network_update_in_place(m, network, state, gradients) ==
    LET out == optimizer_update(gradients, m.network_states[state].optimizer_state)
        updated == NetworkState(
                       apply_updates(m.network_states[state].model_parameters, out[1]),
                       out[2])
    IN  [m EXCEPT !.network_states = Append([@ EXCEPT ![state] = updated], updated),
                  !.network_updates = Append(@, [network |-> network, state |-> state,
                                                 gradients |-> gradients])]

\* A Network.update whose optimizer steps the optimizer state passed in
Network_update_stepping_in_place(m, network, state, gradients) ==
    LET out == optimizer_update(gradients, m.network_states[state].optimizer_state)
        updated_optimizer_state == out[2]
        updated_model_parameters ==
            apply_updates(m.network_states[state].model_parameters, out[1])
    IN  [m EXCEPT !.network_states =
                      Append([@ EXCEPT ![state].optimizer_state = updated_optimizer_state],
                             NetworkState(updated_model_parameters,
                                          updated_optimizer_state)),
                  !.network_updates = Append(@, [network |-> network, state |-> state,
                                                 gradients |-> gradients])]

\* Network.update: the updated state is the last NetworkState constructed
Network_update(m, network, state, gradients) ==
    LET out == optimizer_update(gradients, m.network_states[state].optimizer_state)
        updated_optimizer_state == out[2]
        updated_model_parameters ==
            apply_updates(m.network_states[state].model_parameters, out[1])
    IN  [m EXCEPT !.network_states =
                      Append(@, NetworkState(updated_model_parameters,
                                             updated_optimizer_state)),
                  !.network_updates = Append(@, [network |-> network, state |-> state,
                                                 gradients |-> gradients])]

\* A record that drops the mapping
record_nothing(m, self, loss_dict) == m

\* io_callback(self.logger.record, None, loss_dict): reading self.logger
\* raises where no logger has been set
record(m, self, loss_dict) ==
    IF m.self_logger = NoLogger
    THEN [m EXCEPT !.raised = "AttributeError"]
    ELSE [m EXCEPT !.logger = Append(@, [logger |-> m.self_logger[1],
                                         policy |-> self,
                                         loss_dict |-> loss_dict])]

\* Policy.set_logger
set_logger(m, self, new_logger) == [m EXCEPT !.self_logger = <<new_logger>>]

PolicyState(actor_network_state) ==
    [actor_network_state |-> actor_network_state]
ReinforcePolicyState(actor_network_state) ==
    [actor_network_state |-> actor_network_state]
ActorCriticState(actor_network_state, critic_network_state) ==
    [actor_network_state |-> actor_network_state,
     critic_network_state |-> critic_network_state]

\* get_init_state of each class; the state returned is the last PolicyState
\* constructed
get_init_state(m, self) ==
    LET init_state ==
            IF self = "RandomPolicy"
            THEN PolicyState(Network_get_init_state(<<self, "network">>))
            ELSE IF self = "ReinforcePolicy"
            THEN ReinforcePolicyState(Network_get_init_state(<<self, "actor">>))
            ELSE ActorCriticState(Network_get_init_state(<<self, "actor">>),
                                  Network_get_init_state(<<self, "critic">>))
    IN  [m EXCEPT !.policy_states = Append(@, init_state)]

\* An update of RandomPolicy that steps its network as the other policies do
Random_update_stepping(m, self, state, transitions) ==
    LET m1 == Network_update(m, <<self, "network">>,
                             m.policy_states[state].actor_network_state,
                             [wrt |-> <<self, "network">>, value |-> 1])
        m2 == [m1 EXCEPT !.policy_states =
                             Append(@, PolicyState(Len(m1.network_states)))]
    IN  [memory |-> m2, returned |-> Len(m2.policy_states)]

\* An update returns the memory it leaves and the state it returns
Random_update(m, self, state, transitions) ==
    [memory |-> m, returned |-> state]

\* ReinforcePolicy.update from the result of value_and_grad on
Reinforce_apply(m, self, state, loss_dict, gradients) ==
    LET m1 == Network_update(m, <<self, "actor">>,
                             m.policy_states[state].actor_network_state, gradients)
        new_actor_state == Len(m1.network_states)
        m2 == record(m1, self, loss_dict)
        m3 == [m2 EXCEPT !.policy_states =
                             Append(@, ReinforcePolicyState(new_actor_state))]
    IN  IF m2.raised # ""
        THEN [memory |-> m2, returned |-> 0]
        ELSE [memory |-> m3, returned |-> Len(m3.policy_states)]

Reinforce_update(m, self, state, transitions, forward, gradients) ==
    Reinforce_apply(m, self, state,
                    compute_loss(self, TrainingDiscount, forward, transitions)[2],
                    gradients)

\* ActorCriticPolicy.update from the result of value_and_grad on
ActorCritic_apply(m, self, state, loss_dict, gradients) ==
    LET actor_gradients == gradients[1]
        critic_gradients == gradients[2]
        m1 == Network_update(m, <<self, "actor">>,
                             m.policy_states[state].actor_network_state,
                             actor_gradients)
        new_actor_state == Len(m1.network_states)
        m2 == Network_update(m1, <<self, "critic">>,
                             m.policy_states[state].critic_network_state,
                             critic_gradients)
        new_critic_state == Len(m2.network_states)
        m3 == record(m2, self, loss_dict)
        m4 == [m3 EXCEPT !.policy_states =
                             Append(@, ActorCriticState(new_actor_state,
                                                        new_critic_state))]
    IN  IF m3.raised # ""
        THEN [memory |-> m3, returned |-> 0]
        ELSE [memory |-> m4, returned |-> Len(m4.policy_states)]

\* ActorCriticPolicy.update, which ReinforceBaselinePolicy inherits
ActorCritic_update(m, self, state, transitions, forward, gradients) ==
    ActorCritic_apply(m, self, state,
                      compute_loss(self, TrainingDiscount, forward, transitions)[2],
                      gradients)

\* The gradients value_and_grad returns for the parameters a policy
\* differentiates
Gradients(self) ==
    IF self = "RandomPolicy" THEN {<<>>}
    ELSE IF self = "ReinforcePolicy" THEN GradientsOf(<<self, "actor">>)
    ELSE GradientsOf(<<self, "actor">>) \X GradientsOf(<<self, "critic">>)

update(m, self, state, transitions, forward, gradients) ==
    IF self = "RandomPolicy" THEN Random_update(m, self, state, transitions)
    ELSE IF self = "ReinforcePolicy"
    THEN Reinforce_update(m, self, state, transitions, forward, gradients)
    ELSE ActorCritic_update(m, self, state, transitions, forward, gradients)

\* The states get_init_state has returned: those over cached initial states
InitStates ==
    {state \in DOMAIN policy_states :
        policy_states[state].actor_network_state \in DOMAIN Networks(call.self)}

Init ==
    /\ call \in [fn : {"train"}, self : Policies]
    /\ result = Pending
    /\ network_states = [i \in DOMAIN Networks(call.self) |->
                             Network_init(Networks(call.self)[i])]
    /\ policy_states = <<>>
    /\ self_logger = NoLogger
    /\ logger = <<>>
    /\ update_calls = [self \in Policies |-> 0]
    /\ last_update = NoUpdate

\* The update call of self on state has ended with out: it has returned a
\* state, or raised (returned is then 0)
Completed(self, state, out) ==
    /\ network_states' = out.memory.network_states
    /\ policy_states' = out.memory.policy_states
    /\ logger' = out.memory.logger
    /\ last_update' = [self |-> self, state |-> state,
                       network_updates |-> out.memory.network_updates,
                       returned |-> out.returned,
                       raised |-> out.memory.raised]

SetLogger(self) ==
    /\ call.fn = "train"
    /\ call.self = self
    /\ \E new_logger \in Loggers :
          self_logger' = set_logger(Memory, self, new_logger).self_logger
    /\ UNCHANGED <<call, result, network_states, policy_states, logger, update_calls,
                   last_update>>

GetInitState(self) ==
    /\ call.fn = "train"
    /\ call.self = self
    /\ Cardinality(InitStates) < MaxInitStates
    /\ policy_states' = get_init_state(Memory, self).policy_states
    /\ UNCHANGED <<call, result, network_states, self_logger, logger, update_calls,
                   last_update>>

Update(self) ==
    /\ call.fn = "train"
    /\ call.self = self
    /\ update_calls[self] < MaxUpdates
    /\ \E state \in DOMAIN policy_states, transitions \in TrainingBatches,
          gradients \in Gradients(self) :
          Completed(self, state,
                    update(Memory, self, state, transitions, Forward(self), gradients))
    /\ update_calls' = [update_calls EXCEPT ![self] = @ + 1]
    /\ UNCHANGED <<call, result, self_logger>>

\* compute_loss called on its own; result holds what the last call returned
ComputeLoss(self) ==
    /\ call.fn = "train"
    /\ call.self = self
    /\ \E transitions \in TrainingBatches :
          result' = Returned(compute_loss(self, TrainingDiscount, Forward(self),
                                          transitions))
    /\ UNCHANGED <<call, training>>

Next ==
    \E self \in Policies :
        SetLogger(self) \/ GetInitState(self) \/ Update(self) \/ ComputeLoss(self)

Spec == Init /\ [][Next]_vars

-----------------------------------------------------------------------------
(* The learning rate of a Network.  A rate is recorded by its natural        *)
(* logarithm, so that a power with a fractional exponent is exact.  An       *)
(* absent lr_decay is <<>>, a decay step count n is <<n>>.                   *)

MaxDecaySteps == 3
MaxCount == 6

None == <<>>
FloorRate == Rat(1, 100000)
RMin(x, y) == IF RLess(y, x) THEN y ELSE x

\* optax.schedules.exponential_decay(init_value, transition_steps,
\* decay_rate, transition_begin), with staircase and end_value left at their
\* defaults (False, None), evaluated at an optimizer step count
exponential_decay(init_value, transition_steps, decay_rate, transition_begin, count) ==
    IF transition_steps <= 0 \/ decay_rate = Zero
    THEN log(init_value)
    ELSE LET begin == IF RLess(transition_begin, Zero) THEN Zero ELSE transition_begin
             decreased_count == RSub(Rat(count, 1), begin)
             power == RDiv(decreased_count, Rat(transition_steps, 1))
         IN  IF ~RLess(Zero, decreased_count)
             THEN log(init_value)
             ELSE LAdd(log(init_value), LScale(power, log(decay_rate)))

\* Network.__init__: the rate the Adam step of the optimizer is scaled by at
\* a step count
learning_rate_scheduler(learning_rate, lr_decay, count) ==
    IF lr_decay = None
    THEN log(learning_rate)
    ELSE exponential_decay(learning_rate, lr_decay[1],
                           RMin(learning_rate, FloorRate), Rat(1, 2), count)

\* The default rate 1e-3, the floor constant 1e-5 and a rate below it
LearningRates == {Rat(1, 1000), Rat(1, 100000), Rat(1, 1000000)}

ScheduleCalls ==
    [fn : {"learning_rate_scheduler"},
     learning_rate : LearningRates,
     lr_decay : {None} \cup {<<n>> : n \in 1..MaxDecaySteps},
     count : 0..MaxCount]

InitSchedule ==
    /\ call \in ScheduleCalls
    /\ result = Pending
    /\ NoTraining

CallLearningRateScheduler ==
    /\ call.fn = "learning_rate_scheduler"
    /\ result = Pending
    /\ result' = Returned(learning_rate_scheduler(call.learning_rate, call.lr_decay,
                                                  call.count))
    /\ UNCHANGED <<call, training>>

SpecSchedule == InitSchedule /\ [][CallLearningRateScheduler]_vars

-----------------------------------------------------------------------------
(* Properties of compute_discounted_returns *)

ReturnsReturned ==
    /\ call.fn = "compute_discounted_returns"
    /\ result # Pending

ExampleOneEpisode ==
    [fn |-> "compute_discounted_returns",
     transitions |-> [reward |-> <<One, One, One>>, done |-> <<Zero, Zero, One>>],
     discount_factor |-> Rat(1, 2)]

ExampleTwoEpisodes ==
    [fn |-> "compute_discounted_returns",
     transitions |-> [reward |-> <<One, One, Zero, Rat(2, 1)>>,
                      done |-> <<Zero, One, Zero, One>>],
     discount_factor |-> Rat(1, 2)]

\* C1: the returned vector G has the length of the batch and satisfies
\* G[i] = reward[i] + discount_factor * G[i+1] * (1 - done[i]) at every index,
\* with G beyond the end of the batch taken as 0; rewards [1,1,1], done
\* [0,0,1], discount 0.5 give [1.75, 1.5, 1.0].
C1_ReturnsSatisfyRecurrence ==
    ReturnsReturned =>
        LET G == result[2]
            r == call.transitions.reward
            d == call.transitions.done
            n == Len(r)
        IN  /\ Len(G) = n
            /\ \A i \in 1..n :
                   G[i] = RAdd(r[i],
                               RMul(RMul(call.discount_factor,
                                         IF i = n THEN Zero ELSE G[i + 1]),
                                    RSub(One, d[i])))
            /\ call = ExampleOneEpisode => G = <<Rat(7, 4), Rat(3, 2), One>>

C1_Witness ==
    /\ ReturnsReturned
    /\ call = ExampleOneEpisode
    /\ result = Returned(<<Rat(7, 4), Rat(3, 2), One>>)

\* The last index of the episode that step i belongs to: the first e >= i
\* with done[e] = 1, or the last index of the batch.
RECURSIVE EpisodeEnd(_, _)
EpisodeEnd(dones, i) ==
    IF i >= Len(dones) \/ dones[i] = One THEN i ELSE EpisodeEnd(dones, i + 1)

\* C2: no value flows across an episode boundary: G[i] = reward[i] where
\* done[i] = 1, and G[i] is a function of the steps i..e alone (e the end of
\* step i's episode): it is the return of the first step of the batch cut
\* down to i..e, whatever the rewards outside i..e are; rewards [1,1,0,2],
\* done [0,1,0,1], discount 0.5 give [1.5, 1.0, 1.0, 2.0].
C2_NoFlowAcrossEpisodes ==
    ReturnsReturned =>
        LET G == result[2]
            r == call.transitions.reward
            d == call.transitions.done
            n == Len(r)
        IN  /\ \A i \in 1..n : d[i] = One => G[i] = r[i]
            /\ \A i \in 1..n :
                   LET e == EpisodeEnd(d, i)
                   IN  G[i] = compute_discounted_returns(
                                  [reward |-> SubSeq(r, i, e), done |-> SubSeq(d, i, e)],
                                  call.discount_factor)[1]
            /\ call = ExampleTwoEpisodes
                  => G = <<Rat(3, 2), One, One, Rat(2, 1)>>

C2_Witness ==
    /\ ReturnsReturned
    /\ call = ExampleTwoEpisodes
    /\ result = Returned(<<Rat(3, 2), One, One, Rat(2, 1)>>)

-----------------------------------------------------------------------------
(* Properties of get_action_probabilities and sample_action *)

ValidActions(mask) == {a \in Actions : mask[a] = 1}

RECURSIVE SumOver(_, _)
SumOver(x, S) ==
    IF S = {} THEN Zero
    ELSE LET a == CHOOSE b \in S : TRUE IN FAdd(x[a], SumOver(x, S \ {a}))

ProbabilitiesReturned ==
    /\ call.fn = "get_action_probabilities"
    /\ result[1] = "returned"

ActionSampled ==
    /\ call.fn = "sample_action"
    /\ result[1] = "returned"

\* C3: for every policy, one unbatched observation and a mask with at least
\* one valid action, the returned vector is exactly 0 where the mask is 0 and
\* its entries where the mask is 1 sum to 1; RandomPolicy gives every valid
\* action 1 / (number of valid actions).
C3_MaskedProbabilities ==
    (ProbabilitiesReturned /\ ValidActions(call.action_mask.data) # {}) =>
        LET probabilities == result[2]
            valid == ValidActions(call.action_mask.data)
        IN  /\ \A a \in Actions \ valid : probabilities[a] = Zero
            /\ SumOver(probabilities, valid) = One
            /\ call.self = "RandomPolicy" =>
                  \A a \in valid : probabilities[a] = Rat(1, Cardinality(valid))

\* A non-uniform actor on a mask that forbids some actions.
C3_Witness ==
    /\ ProbabilitiesReturned
    /\ call.self = "ReinforceBaselinePolicy"
    /\ ValidActions(call.action_mask.data) = {1, 3}
    /\ result[2] = [a \in Actions |-> CASE a = 1 -> Rat(2, 3)
                                         [] a = 3 -> Rat(1, 3)
                                         [] OTHER -> Zero]

\* C4: with at least one valid action sample_action returns an action whose
\* mask entry is 1; with a one-hot mask it returns the one valid action
\* whatever the key.
C4_SampledActionIsValid ==
    (ActionSampled /\ ValidActions(call.action_mask.data) # {}) =>
        /\ result[2] \in ValidActions(call.action_mask.data)
        /\ \A a \in Actions :
              ValidActions(call.action_mask.data) = {a} => result[2] = a

\* A draw of the last of several valid actions, and a one-hot mask.
C4_Witness ==
    /\ ActionSampled
    /\ \/ /\ ValidActions(call.action_mask.data) = {0, 2, 3}
          /\ call.key = 0
          /\ result[2] = 3
       \/ /\ ValidActions(call.action_mask.data) = {2}
          /\ call.key = KeyDen - 1
          /\ result[2] = 2

\* C10: with the all-zero mask the call does not return an ordinary result:
\* it raises InvalidMaskError, or what it returns is NaN/Inf.  (What
\* sample_action returns is an int32 action index, which is neither.)
C10_DegenerateMaskIsSignalled ==
    (result # Pending /\ call.fn \in {"get_action_probabilities", "sample_action"}
        /\ ValidActions(call.action_mask.data) = {}) =>
        \/ result[1] = "raised"
        \/ /\ call.fn = "get_action_probabilities"
           /\ \E a \in Actions : ~IsFinite(result[2][a])

-----------------------------------------------------------------------------
(* Properties of compute_loss.  The stated losses are built from each step's *)
(* own quantities: log pi(a_i | s_i) from actions_to_probabilities, V(s_i)   *)
(* and V(s'_i) from the critic on step i's boards.                           *)

LossReturned(self) ==
    /\ call.fn = "compute_loss"
    /\ call.self = self
    /\ result[1] = "returned"

StepLogProbabilities(actor_parameters) ==
    LET T == call.transitions
        P == actions_to_probabilities(call.self, actor_parameters, T.observation,
                                      T.action, T.action_mask)
        LogP(i) == log(P[i])
    IN  Tabulate(LogP, BatchSize(T))

StepValues(critic_parameters, boards) ==
    LET V(i) == get_logits(critic_parameters, boards.data[i])[1]
    IN  Tabulate(V, Len(boards.data))

\* - mean over the steps i of weight[i] * log pi(a_i | s_i)
StatedActorLoss(actor_parameters, weight) ==
    LET logp == StepLogProbabilities(actor_parameters)
        Term(i) == LScale(weight[i], logp[i])
    IN  LNeg(Lmean(Vec(Tabulate(Term, Len(weight)))))

\* C5: ReinforcePolicy.compute_loss returns - mean_i G[i] * log pi(a_i | s_i),
\* pi(a_i | s_i) taken from step i's own observation, mask and action and G
\* from compute_discounted_returns; the metric "Actor loss" is the loss.
C5_ReinforceLoss ==
    LossReturned("ReinforcePolicy") =>
        LET G == compute_discounted_returns(call.transitions, call.discount_factor)
            loss == result[2][1]
            metrics == result[2][2]
        IN  /\ loss = StatedActorLoss(call.model_parameters, G)
            /\ DOMAIN metrics = {"Actor loss"}
            /\ metrics["Actor loss"] = loss

\* The one-step targets reward[i] + discount_factor * V(s'_i) * (1 - done[i])
StatedTargets ==
    LET T == call.transitions
        next_value == StepValues(call.model_parameters[2], T.next_observation)
        Target(i) == RAdd(T.reward[i],
                          RMul(RMul(call.discount_factor, next_value[i]),
                               RSub(One, T.done[i])))
    IN  Tabulate(Target, BatchSize(T))

\* C6: ActorCriticPolicy.compute_loss uses the one-step target of each step:
\* advantage[i] = target[i] - V(s_i), actor loss = - mean_i log pi(a_i | s_i) *
\* advantage[i], critic loss = half the mean over i of (V(s_i) - target[i])^2,
\* and the returned loss is their sum.
C6_ActorCriticLoss ==
    LossReturned("ActorCriticPolicy") =>
        LET T == call.transitions
            value == StepValues(call.model_parameters[2], T.observation)
            target == StatedTargets
            Advantage(i) == RSub(target[i], value[i])
            advantage == Tabulate(Advantage, BatchSize(T))
            SquaredError(i) == Square(RSub(value[i], target[i]))
            actor_loss == StatedActorLoss(call.model_parameters[1], advantage)
            critic_loss ==
                Const(RMul(Rat(1, 2), mean(Vec(Tabulate(SquaredError, BatchSize(T))))))
            metrics == result[2][2]
        IN  /\ metrics["Actor loss"] = actor_loss
            /\ metrics["Critic loss"] = critic_loss
            /\ result[2][1] = LAdd(actor_loss, critic_loss)

\* C7: ReinforceBaselinePolicy.compute_loss does not bootstrap:
\* advantage[i] = G[i] - V(s_i) with G from compute_discounted_returns, actor
\* loss = - mean_i log pi(a_i | s_i) * advantage[i], value-network loss = the
\* mean over i of advantage[i]^2.
C7_ReinforceBaselineLoss ==
    LossReturned("ReinforceBaselinePolicy") =>
        LET T == call.transitions
            G == compute_discounted_returns(T, call.discount_factor)
            value == StepValues(call.model_parameters[2], T.observation)
            Advantage(i) == RSub(G[i], value[i])
            advantage == Tabulate(Advantage, BatchSize(T))
            SquaredAdvantage(i) == Square(advantage[i])
            actor_loss == StatedActorLoss(call.model_parameters[1], advantage)
            critic_loss == Const(mean(Vec(Tabulate(SquaredAdvantage, BatchSize(T)))))
            metrics == result[2][2]
        IN  /\ metrics["Actor loss"] = actor_loss
            /\ metrics["Value network loss"] = critic_loss
            /\ result[2][1] = LAdd(actor_loss, critic_loss)

-----------------------------------------------------------------------------
(* Properties of update *)

LearningPolicies == Policies \ {"RandomPolicy"}

\* The step is an update call of a learning policy
LearningUpdateCalled ==
    \E self \in LearningPolicies : update_calls'[self] = update_calls[self] + 1

\* The field of a policy state that holds the state of a network
StateField(policy_state, network) ==
    IF network[2] = "critic" THEN policy_state.critic_network_state
    ELSE policy_state.actor_network_state

\* new is old after one optimizer step on the given gradients
OneStepFrom(old, new, gradients) ==
    /\ new.model_parameters.of = old.model_parameters.of
    /\ Len(new.model_parameters.updates) = Len(old.model_parameters.updates) + 1
    /\ SubSeq(new.model_parameters.updates, 1, Len(old.model_parameters.updates))
           = old.model_parameters.updates
    /\ new.optimizer_state.count = old.optimizer_state.count + 1
    /\ new.optimizer_state.moments = Append(old.optimizer_state.moments, gradients)
    /\ new.model_parameters.updates[Len(new.model_parameters.updates)].moments
           = new.optimizer_state.moments

UpdateEffect ==
    LET self == last_update'.self
        owned == OwnedNetworks(self)
        applied == last_update'.network_updates
        passed == policy_states[last_update'.state]
        returned == policy_states'[last_update'.returned]
    IN  /\ Len(applied) = Cardinality(owned)
        /\ \A network \in owned :
              \E i \in DOMAIN applied :
                  /\ applied[i].network = network
                  /\ applied[i].state = StateField(passed, network)
                  /\ applied[i].gradients.wrt = network
                  /\ StateField(returned, network) \notin DOMAIN network_states
                  /\ OneStepFrom(network_states[StateField(passed, network)],
                                 network_states'[StateField(returned, network)],
                                 applied[i].gradients)
        /\ Len(network_states') = Len(network_states) + Cardinality(owned)
        /\ DOMAIN returned = DOMAIN passed
        /\ last_update'.returned \notin DOMAIN policy_states
        /\ Len(policy_states') = Len(policy_states) + 1
        /\ \A i \in DOMAIN network_states : network_states'[i] = network_states[i]
        /\ \A i \in DOMAIN policy_states : policy_states'[i] = policy_states[i]

\* An update call that raises returns nothing: no policy state is
\* constructed, no logger receives anything, and every object that existed
\* before the call is as it was
UpdateRaised ==
    /\ last_update'.returned = 0
    /\ policy_states' = policy_states
    /\ logger' = logger
    /\ \A i \in DOMAIN network_states : network_states'[i] = network_states[i]

\* C8: an update call of ReinforcePolicy, made once set_logger has given the
\* policy a logger, applies one Network.update, to the actor state passed in
\* with the gradients of the actor; an update call of ActorCriticPolicy or
\* ReinforceBaselinePolicy applies one to the actor state with the actor
\* gradients and one to the critic state with the critic gradients.  Nothing
\* else is updated: the call returns a new policy state over the new network
\* states, and every object that existed before the call, the state passed
\* in among them, is as it was.  A call made before any set_logger raises
\* AttributeError and returns nothing.
C8_UpdateAppliesOneStepPerNetwork ==
    [][LearningUpdateCalled =>
          /\ (last_update'.raised # "") = (self_logger = NoLogger)
          /\ IF self_logger = NoLogger THEN UpdateRaised ELSE UpdateEffect]_vars

\* C8 witness: an actor-critic update of a state that an earlier update
\* returned, itself returning a state
C8_Witness ==
    /\ last_update.self \in {"ActorCriticPolicy", "ReinforceBaselinePolicy"}
    /\ Len(last_update.network_updates) = 2
    /\ last_update.state \notin InitStates
    /\ last_update.raised = ""
    /\ last_update.returned \in DOMAIN policy_states

-----------------------------------------------------------------------------
(* Properties of logging *)

Recorded(self) == {i \in DOMAIN logger : logger[i].policy = self}

\* The step is an update call of self, made with a logger set
UpdateCalledWithLogger(self) ==
    /\ update_calls'[self] = update_calls[self] + 1
    /\ self_logger # NoLogger

\* The step hands one mapping to the logger of the policy, with keys among
\* the logger_entries of the class
RecordsOnce(self) ==
    /\ Len(logger') = Len(logger) + 1
    /\ SubSeq(logger', 1, Len(logger)) = logger
    /\ logger'[Len(logger')].logger = self_logger[1]
    /\ logger'[Len(logger')].policy = self
    /\ DOMAIN logger'[Len(logger')].loss_dict \subseteq logger_entries(self)

\* C9 as stated: an update call of any policy, RandomPolicy included, made
\* with a logger set, invokes the record operation of that logger exactly
\* once, with keys among the logger_entries of the class
C9_EveryPolicyRecordsOncePerUpdate ==
    [][\A self \in Policies : UpdateCalledWithLogger(self) => RecordsOnce(self)]_vars

\* C9 amended: an update call of ReinforcePolicy, ActorCriticPolicy or
\* ReinforceBaselinePolicy, made with a logger set, invokes the record
\* operation of the logger last set exactly once, with keys among the
\* logger_entries of the class; an update call of RandomPolicy invokes no
\* record operation
C9_LearningPoliciesRecordOncePerUpdate ==
    [][/\ \A self \in LearningPolicies :
              UpdateCalledWithLogger(self) => RecordsOnce(self)
       /\ UpdateCalledWithLogger("RandomPolicy") => logger' = logger]_vars

\* C9 witness: ReinforceBaselinePolicy has been updated with one logger set
\* and then with another; each logger has received one mapping, with both of
\* the declared keys
C9_Witness ==
    /\ update_calls["ReinforceBaselinePolicy"] >= 2
    /\ Len(logger) = 2
    /\ logger[1].logger # logger[2].logger
    /\ \A i \in DOMAIN logger :
          /\ logger[i].policy = "ReinforceBaselinePolicy"
          /\ DOMAIN logger[i].loss_dict = logger_entries("ReinforceBaselinePolicy")

-----------------------------------------------------------------------------
(* Properties of RandomPolicy *)

\* The state get_init_state of RandomPolicy returns, by value
RandomInitState ==
    [actor_network_state |-> Network_init(<<"RandomPolicy", "network">>)]

\* A policy state by value: each network state it refers to, read
ValueOf(state) ==
    [field \in DOMAIN policy_states[state] |->
        network_states[policy_states[state][field]]]

\* C11: RandomPolicy.update, with or without a logger set, returns the state
\* it is passed and updates no network, so after any number of update calls every state the trainer
\* holds equals the one get_init_state returns; RandomPolicy.compute_loss
\* returns the loss 0 and a mapping with no entries.
C11_RandomPolicyDoesNotLearn ==
    call.fn = "train" /\ call.self = "RandomPolicy" =>
        /\ last_update # NoUpdate =>
              /\ last_update.returned = last_update.state
              /\ last_update.network_updates = <<>>
              /\ last_update.raised = ""
        /\ \A state \in DOMAIN policy_states : ValueOf(state) = RandomInitState
        /\ network_states = <<Network_init(<<"RandomPolicy", "network">>)>>
        /\ logger = <<>>
        /\ result # Pending =>
              /\ result[2][1] = Const(Zero)
              /\ DOMAIN result[2][2] = {}

\* C11 witness: RandomPolicy has been updated more than once, on a state
\* get_init_state returned, and compute_loss has returned
C11_Witness ==
    /\ call.fn = "train" /\ call.self = "RandomPolicy"
    /\ update_calls["RandomPolicy"] >= 2
    /\ last_update.state \in DOMAIN policy_states
    /\ result # Pending

-----------------------------------------------------------------------------
(* Properties of the initial state of a network *)

\* What Network.get_init_state returns holds the values of construction
InitStateAsConstructed ==
    \A network \in OwnedNetworks(call.self) :
        network_states[Network_get_init_state(network)] = Network_init(network)

\* Every policy state the trainer holds keeps its value through the step
PolicyStatesKeepTheirValue ==
    \A state \in DOMAIN policy_states :
        /\ state \in DOMAIN policy_states'
        /\ ValueOf(state)' = ValueOf(state)

\* C12: after any sequence of update calls, Network.get_init_state returns a
\* state with the parameter and optimizer values of construction, and an
\* update call changes the value of no policy state the trainer already
\* holds: the states of one lineage are untouched by updates of another.
C12_InitStateIsReadOnly ==
    /\ [](call.fn = "train" => InitStateAsConstructed)
    /\ [][PolicyStatesKeepTheirValue]_vars

\* C12 witness: two lineages, each advanced by an update.  The second
\* get_init_state call came after an update of the first lineage, and the
\* last update was made on the state it returned.
C12_Witness ==
    /\ call.fn = "train" /\ call.self # "RandomPolicy"
    /\ \E first, second \in InitStates :
          /\ first < second
          /\ \E updated \in DOMAIN policy_states \ InitStates : updated < second
          /\ last_update.state = second
          /\ last_update.returned \in DOMAIN policy_states \ InitStates
    /\ InitStateAsConstructed

-----------------------------------------------------------------------------
(* Properties of the learning rate *)

\* The logarithm of learning_rate * 0.5^k
Halved(learning_rate, k) ==
    LAdd(log(learning_rate), LScale(Rat(k, 1), log(Rat(1, 2))))

\* The rates drawn and the floor are powers of ten, and so is every rate the
\* schedule returns for them: x in 10^x, read off a logarithm
PowerOfTen(x) == x[2]
IsPowerOfTen(x) == \A b \in Basis : x[b] = IF b \in {2, 5} THEN x[2] ELSE Zero

\* C13: with a decay step count N the rate at step k*N is
\* learning_rate * 0.5^k, or the floor min(learning_rate, 1e-5) where that is
\* reached, and at no step is the rate below the floor; without a decay step
\* count the rate is learning_rate at every step.
C13_RateHalvesDownToFloor ==
    call.fn = "learning_rate_scheduler" /\ result # Pending =>
        LET rate == result[2]
            floor == log(RMin(call.learning_rate, FloorRate))
        IN  IF call.lr_decay = None
            THEN rate = log(call.learning_rate)
            ELSE /\ \A k \in 0..MaxCount :
                      call.count = k * call.lr_decay[1] =>
                          rate \in {Halved(call.learning_rate, k), floor}
                 /\ IsPowerOfTen(rate) =>
                      ~RLess(PowerOfTen(rate), PowerOfTen(floor))

====
